---- MODULE Spec2Model ----
(***************************************************************************)
(* Model of the Rask component transform (packages/core/swc-plugin,        *)
(* src/lib.rs): the classification of function-like declarations as       *)
(* stateless / stateful components, their rewrite into classes, the walk   *)
(* over the module and the import rewriting / injection that follows it.   *)
(*                                                                         *)
(* Syntax trees are records with a field "kind" naming the swc variant;    *)
(* an absent optional child (Option::None) is the record None.             *)
(***************************************************************************)
EXTENDS Integers, Sequences, FiniteSets, TLC

\* ------------------------------------------------------------------------
\* Syntax tree constructors (the swc_core::ecma::ast variants the transform
\* inspects or produces)
\* ------------------------------------------------------------------------

None == [kind |-> "None"]

\* Ident: a symbol and its syntax context; user identifiers carry context 0
Ident(sym) == [kind |-> "Ident", sym |-> sym, ctxt |-> 0]

\* quote_ident!(sym): an identifier without a private mark
quote_ident(sym) == Ident(sym)

Call(callee, args) == [kind |-> "Call", callee |-> callee, args |-> args]
Paren(e) == [kind |-> "Paren", expr |-> e]
Cond(t, c, a) == [kind |-> "Cond", test |-> t, cons |-> c, alt |-> a]
Bin(l, r) == [kind |-> "Bin", left |-> l, right |-> r]
Array(elems) == [kind |-> "Array", elems |-> elems]
Member(obj, prop) == [kind |-> "Member", obj |-> obj, prop |-> prop]
Unary(e) == [kind |-> "Unary", arg |-> e]
Await(e) == [kind |-> "Await", arg |-> e]
BlockStmt(stmts) == [kind |-> "BlockStmt", stmts |-> stmts]
Arrow(params, body, async) ==
    [kind |-> "Arrow", params |-> params, body |-> body,
     is_async |-> async, is_generator |-> FALSE]
Function(params, body, async, gen) ==
    [kind |-> "Function", params |-> params, body |-> body,
     is_async |-> async, is_generator |-> gen]
FnExpr(ident, function) == [kind |-> "FnExpr", ident |-> ident, function |-> function]
ClassProp(key, value) == [kind |-> "ClassProp", key |-> key, value |-> value]
Class(body, super_class) == [kind |-> "Class", body |-> body, super_class |-> super_class]
ClassExpr(ident, class) == [kind |-> "ClassExpr", ident |-> ident, class |-> class]

Return(arg) == [kind |-> "Return", arg |-> arg]
If(t, c, a) == [kind |-> "If", test |-> t, cons |-> c, alt |-> a]
SwitchCase(cons) == [kind |-> "SwitchCase", cons |-> cons]
Switch(cases) == [kind |-> "Switch", cases |-> cases]
CatchClause(body) == [kind |-> "CatchClause", body |-> body]
Try(block, handler, finalizer) ==
    [kind |-> "Try", block |-> block, handler |-> handler, finalizer |-> finalizer]
For(body) == [kind |-> "For", body |-> body]
ForIn(body) == [kind |-> "ForIn", body |-> body]
ForOf(body) == [kind |-> "ForOf", body |-> body]
While(body) == [kind |-> "While", body |-> body]
DoWhile(body) == [kind |-> "DoWhile", body |-> body]
Labeled(body) == [kind |-> "Labeled", body |-> body]
ExprStmt(e) == [kind |-> "ExprStmt", expr |-> e]
FnDecl(ident, function) == [kind |-> "FnDecl", ident |-> ident, function |-> function]
ClassDecl(ident, class) == [kind |-> "ClassDecl", ident |-> ident, class |-> class]
PatIdent(id) == [kind |-> "PatIdent", id |-> id]
PatObject(key) == [kind |-> "PatObject", key |-> key]
VarDeclarator(name, init) == [kind |-> "VarDeclarator", name |-> name, init |-> init]
VarDecl(decls) == [kind |-> "VarDecl", decls |-> decls]

Str(value) == [kind |-> "Str", value |-> value]
ImportNamedSpecifier(local, imported) ==
    [kind |-> "Named", local |-> local, imported |-> imported]
ImportDefaultSpecifier(local) == [kind |-> "Default", local |-> local]
ImportDecl(src, specifiers) == [kind |-> "Import", src |-> src, specifiers |-> specifiers]
ExportDefaultDecl(decl) == [kind |-> "ExportDefaultDecl", decl |-> decl]
ExportDefaultExpr(e) == [kind |-> "ExportDefaultExpr", expr |-> e]
ExportDecl(decl) == [kind |-> "ExportDecl", decl |-> decl]

\* ------------------------------------------------------------------------
\* Marker call detector and component classifier
\* ------------------------------------------------------------------------

VNodeNames == {"createVNode", "createComponentVNode", "createFragment", "createTextVNode"}

RECURSIVE has_vnode_call(_)

\* variant: the test of a ternary is searched as well
has_vnode_call_with_test(expr) ==
    CASE expr.kind = "Call" ->
            \/ /\ expr.callee.kind = "Ident"
               /\ expr.callee.sym \in VNodeNames
            \/ \E i \in DOMAIN expr.args : has_vnode_call(expr.args[i])
      [] expr.kind = "Paren" -> has_vnode_call(expr.expr)
      [] expr.kind = "Cond" ->
            has_vnode_call(expr.test) \/ has_vnode_call(expr.cons) \/ has_vnode_call(expr.alt)
      [] expr.kind = "Bin" -> has_vnode_call(expr.left) \/ has_vnode_call(expr.right)
      [] expr.kind = "Array" ->
            \E i \in DOMAIN expr.elems :
                /\ expr.elems[i] # None
                /\ has_vnode_call(expr.elems[i])
      [] expr.kind = "Arrow" ->
            IF expr.body.kind # "BlockStmt"
            THEN has_vnode_call(expr.body)
            ELSE \E i \in DOMAIN expr.body.stmts :
                    /\ expr.body.stmts[i].kind = "Return"
                    /\ expr.body.stmts[i].arg # None
                    /\ has_vnode_call(expr.body.stmts[i].arg)
      [] expr.kind = "Member" -> has_vnode_call(expr.obj)
      [] expr.kind = "Unary" -> has_vnode_call(expr.arg)
      [] OTHER -> FALSE

has_vnode_call(expr) ==
    CASE expr.kind = "Call" ->
            \/ /\ expr.callee.kind = "Ident"
               /\ expr.callee.sym \in VNodeNames
            \/ \E i \in DOMAIN expr.args : has_vnode_call(expr.args[i])
      [] expr.kind = "Paren" -> has_vnode_call(expr.expr)
      [] expr.kind = "Cond" -> has_vnode_call(expr.cons) \/ has_vnode_call(expr.alt)
      [] expr.kind = "Bin" -> has_vnode_call(expr.left) \/ has_vnode_call(expr.right)
      [] expr.kind = "Array" ->
            \E i \in DOMAIN expr.elems :
                /\ expr.elems[i] # None
                /\ has_vnode_call(expr.elems[i])
      [] expr.kind = "Arrow" ->
            IF expr.body.kind # "BlockStmt"
            THEN has_vnode_call(expr.body)
            ELSE \E i \in DOMAIN expr.body.stmts :
                    /\ expr.body.stmts[i].kind = "Return"
                    /\ expr.body.stmts[i].arg # None
                    /\ has_vnode_call(expr.body.stmts[i].arg)
      [] expr.kind = "Member" -> has_vnode_call(expr.obj)
      [] expr.kind = "Unary" -> has_vnode_call(expr.arg)
      [] OTHER -> FALSE

\* variant: the guard against a returned arrow function is missing
is_stateless_component_unguarded(func) ==
    /\ func.body # None
    /\ \E i \in DOMAIN func.body.stmts :
          LET stmt == func.body.stmts[i] IN
          /\ stmt.kind = "Return"
          /\ stmt.arg # None
          /\ has_vnode_call(stmt.arg)

is_stateless_component(func) ==
    /\ func.body # None
    /\ \E i \in DOMAIN func.body.stmts :
          LET stmt == func.body.stmts[i] IN
          /\ stmt.kind = "Return"
          /\ stmt.arg # None
          /\ has_vnode_call(stmt.arg)
          /\ stmt.arg.kind # "Arrow"

RECURSIVE stmt_has_vnode_return(_)

\* variant: a statement that does not match ends the search of the block
block_has_vnode_return_first(block) ==
    /\ block.stmts # <<>>
    /\ stmt_has_vnode_return(block.stmts[1])

block_has_vnode_return(block) ==
    \E i \in DOMAIN block.stmts : stmt_has_vnode_return(block.stmts[i])

stmt_has_vnode_return(stmt) ==
    CASE stmt.kind = "Return" -> stmt.arg # None /\ has_vnode_call(stmt.arg)
      [] stmt.kind = "If" ->
            \/ stmt_has_vnode_return(stmt.cons)
            \/ stmt.alt # None /\ stmt_has_vnode_return(stmt.alt)
      [] stmt.kind = "BlockStmt" -> block_has_vnode_return(stmt)
      [] stmt.kind = "Switch" ->
            \E c \in DOMAIN stmt.cases :
                \E i \in DOMAIN stmt.cases[c].cons :
                    stmt_has_vnode_return(stmt.cases[c].cons[i])
      [] stmt.kind = "Try" ->
            \/ block_has_vnode_return(stmt.block)
            \/ stmt.handler # None /\ block_has_vnode_return(stmt.handler.body)
            \/ stmt.finalizer # None /\ block_has_vnode_return(stmt.finalizer)
      [] stmt.kind \in {"For", "ForIn", "ForOf", "While", "DoWhile", "Labeled"} ->
            stmt_has_vnode_return(stmt.body)
      [] OTHER -> FALSE

\* variant: the closure's block is searched at its top level only
is_rask_component_shallow(func) ==
    /\ func.body # None
    /\ \E i \in DOMAIN func.body.stmts :
          LET stmt == func.body.stmts[i] IN
          /\ stmt.kind = "Return"
          /\ stmt.arg # None
          /\ stmt.arg.kind = "Arrow"
          /\ has_vnode_call(stmt.arg)

is_rask_component(func) ==
    /\ func.body # None
    /\ \E i \in DOMAIN func.body.stmts :
          LET stmt == func.body.stmts[i] IN
          /\ stmt.kind = "Return"
          /\ stmt.arg # None
          /\ stmt.arg.kind = "Arrow"
          /\ IF stmt.arg.body.kind # "BlockStmt"
             THEN has_vnode_call(stmt.arg.body)
             ELSE block_has_vnode_return(stmt.arg.body)

\* ------------------------------------------------------------------------
\* Declaration normaliser
\* ------------------------------------------------------------------------

\* variant: the flags of the arrow are not carried over
arrow_to_function_sync(arrow) ==
    Function(arrow.params,
             IF arrow.body.kind = "BlockStmt"
             THEN arrow.body
             ELSE BlockStmt(<<Return(arrow.body)>>),
             FALSE, FALSE)

arrow_to_function(arrow) ==
    Function(arrow.params,
             IF arrow.body.kind = "BlockStmt"
             THEN arrow.body
             ELSE BlockStmt(<<Return(arrow.body)>>),
             arrow.is_async, arrow.is_generator)

\* ------------------------------------------------------------------------
\* Transform state and class rewriter.  The walker threads a record
\*   [stateful, stateless : Ident or None, mark : Nat]
\* (the two fields of RaskComponentTransform and the hygiene mark counter
\* that private_ident! draws from); every rewriting operator returns the
\* new node together with the new state.
\* ------------------------------------------------------------------------

R(node, st) == [node |-> node, st |-> st]

\* private_ident!(sym): an identifier with a fresh syntax context
private_ident(sym, mark) == [kind |-> "Ident", sym |-> sym, ctxt |-> mark]

\* variant: a binding is allocated at every rewrite
ensure_stateful_fresh(st) ==
    [st EXCEPT !.stateful = private_ident("RaskStatefulComponent", st.mark + 1),
               !.mark = st.mark + 1]

\* lines 244-246 / 336-338: allocate the stateful binding on first need
ensure_stateful(st) ==
    IF st.stateful = None
    THEN [st EXCEPT !.stateful = private_ident("RaskStatefulComponent", st.mark + 1),
                    !.mark = st.mark + 1]
    ELSE st

\* lines 290-292 / 341-343: allocate the stateless binding on first need
ensure_stateless(st) ==
    IF st.stateless = None
    THEN [st EXCEPT !.stateless = private_ident("RaskStatelessComponent", st.mark + 1),
                    !.mark = st.mark + 1]
    ELSE st

transform_to_stateful_class(name, func, st) ==
    LET st1 == ensure_stateful(st)
        setup_prop == ClassProp("setup", FnExpr(name, func))
    IN R(ClassDecl(name, Class(<<setup_prop>>, st1.stateful)), st1)

\* variant: the stateless rewrite built from a copy of the stateful one
transform_to_stateless_class_copied(name, func, st) ==
    LET st1 == ensure_stateful(st)
        render_prop == ClassProp("renderFn", FnExpr(name, func))
    IN R(ClassDecl(name, Class(<<render_prop>>, st1.stateful)), st1)

\* variant: the class that replaces the declaration is rewritten once more
transform_to_stateless_class_twice(name, func, st) ==
    LET st1 == ensure_stateless(st)
        render_prop == ClassProp("renderFn", FnExpr(name, func))
        once == ClassExpr(name, Class(<<render_prop>>, st1.stateless))
    IN R(ClassDecl(name, Class(<<ClassProp("renderFn", once)>>, st1.stateless)), st1)

transform_to_stateless_class(name, func, st) ==
    LET st1 == ensure_stateless(st)
        render_prop == ClassProp("renderFn", FnExpr(name, func))
    IN R(ClassDecl(name, Class(<<render_prop>>, st1.stateless)), st1)

create_component_class_expr(name, func, is_stateful, st) ==
    LET st1 == IF is_stateful THEN ensure_stateful(st) ELSE ensure_stateless(st)
        super_class_ident == IF is_stateful THEN st1.stateful ELSE st1.stateless
        prop_key == IF is_stateful THEN "setup" ELSE "renderFn"
    IN R(ClassExpr(name, Class(<<ClassProp(prop_key, FnExpr(name, func))>>,
                               super_class_ident)), st1)

\* ------------------------------------------------------------------------
\* Module walker
\* ------------------------------------------------------------------------

\* lines 587-605: the declarators of a variable declaration, in order
RECURSIVE rewrite_var_declarators(_, _, _)

\* variant: the binding pattern is not inspected; a destructuring pattern
\* lends its first key as the class name
rewrite_var_declarators_any_pattern(decls, i, st) ==
    IF i > Len(decls) THEN R(decls, st)
    ELSE LET decl == decls[i]
             func == arrow_to_function(decl.init)
             is_stateful == is_rask_component(func)
             is_stateless == is_stateless_component(func)
             name == IF decl.name.kind = "PatIdent" THEN decl.name.id
                     ELSE quote_ident(decl.name.key)
         IN IF /\ decl.init # None
               /\ decl.init.kind = "Arrow"
               /\ (is_stateful \/ is_stateless)
            THEN LET r == create_component_class_expr(name, func, is_stateful, st)
                 IN rewrite_var_declarators([decls EXCEPT ![i].init = r.node], i + 1, r.st)
            ELSE rewrite_var_declarators(decls, i + 1, st)

rewrite_var_declarators(decls, i, st) ==
    IF i > Len(decls) THEN R(decls, st)
    ELSE LET decl == decls[i]
             func == arrow_to_function(decl.init)
             is_stateful == is_rask_component(func)
             is_stateless == is_stateless_component(func)
         IN IF /\ decl.init # None
               /\ decl.init.kind = "Arrow"
               /\ (is_stateful \/ is_stateless)
               /\ decl.name.kind = "PatIdent"
            THEN LET r == create_component_class_expr(decl.name.id, func, is_stateful, st)
                 IN rewrite_var_declarators([decls EXCEPT ![i].init = r.node], i + 1, r.st)
            ELSE rewrite_var_declarators(decls, i + 1, st)

\* The visitor.  visit_mut(method, node, i, st) is the VisitMut method of that
\* name applied to node; the methods that walk a list take the list as node and
\* visit it from index i on.  visit_mut_stmt and visit_mut_function are the
\* methods the transform overrides, the others are the default traversal that
\* visit_mut_children_with performs.
RECURSIVE visit_mut(_, _, _, _)
visit_mut(method, node, i, st) ==
    CASE method = "visit_mut_stmt" ->
            \* lines 566-612
            IF node.kind = "FnDecl" /\ is_rask_component(node.function)
            THEN transform_to_stateful_class(node.ident, node.function, st)
            ELSE IF node.kind = "FnDecl" /\ is_stateless_component(node.function)
            THEN transform_to_stateless_class(node.ident, node.function, st)
            ELSE IF node.kind = "VarDecl"
            THEN LET r == rewrite_var_declarators(node.decls, 1, st)
                 IN visit_mut("visit_mut_stmt_children",
                              [node EXCEPT !.decls = r.node], 0, r.st)
            ELSE visit_mut("visit_mut_stmt_children", node, 0, st)
      [] method = "visit_mut_function" ->
            \* lines 556-564: the body is walked statement by statement, then
            \* func.visit_mut_children_with(self) walks it a second time
            IF node.body = None THEN R(node, st)
            ELSE LET r1 == visit_mut("visit_mut_stmts", node.body.stmts, 1, st)
                     r2 == visit_mut("visit_mut_stmts", r1.node, 1, r1.st)
                 IN R([node EXCEPT !.body.stmts = r2.node], r2.st)
      [] method = "visit_mut_stmts" ->
            IF i > Len(node) THEN R(node, st)
            ELSE LET r == visit_mut("visit_mut_stmt", node[i], 0, st)
                 IN visit_mut("visit_mut_stmts", [node EXCEPT ![i] = r.node], i + 1, r.st)
      [] method = "visit_mut_exprs" ->
            \* call arguments and array elements; holes are skipped
            IF i > Len(node) THEN R(node, st)
            ELSE LET r == visit_mut("visit_mut_opt_expr", node[i], 0, st)
                 IN visit_mut("visit_mut_exprs", [node EXCEPT ![i] = r.node], i + 1, r.st)
      [] method = "visit_mut_class_members" ->
            IF i > Len(node) THEN R(node, st)
            ELSE LET r == visit_mut("visit_mut_opt_expr", node[i].value, 0, st)
                 IN visit_mut("visit_mut_class_members",
                              [node EXCEPT ![i].value = r.node], i + 1, r.st)
      [] method = "visit_mut_var_declarators" ->
            IF i > Len(node) THEN R(node, st)
            ELSE LET r == visit_mut("visit_mut_opt_expr", node[i].init, 0, st)
                 IN visit_mut("visit_mut_var_declarators",
                              [node EXCEPT ![i].init = r.node], i + 1, r.st)
      [] method = "visit_mut_switch_cases" ->
            IF i > Len(node) THEN R(node, st)
            ELSE LET r == visit_mut("visit_mut_stmts", node[i].cons, 1, st)
                 IN visit_mut("visit_mut_switch_cases",
                              [node EXCEPT ![i].cons = r.node], i + 1, r.st)
      [] method = "visit_mut_opt_expr" ->
            IF node = None THEN R(node, st) ELSE visit_mut("visit_mut_expr", node, 0, st)
      [] method = "visit_mut_block_stmt" ->
            LET r == visit_mut("visit_mut_stmts", node.stmts, 1, st)
            IN R([node EXCEPT !.stmts = r.node], r.st)
      [] method = "visit_mut_opt_block_stmt" ->
            IF node = None THEN R(node, st)
            ELSE visit_mut("visit_mut_block_stmt", node, 0, st)
      [] method = "visit_mut_class" ->
            LET rb == visit_mut("visit_mut_class_members", node.body, 1, st)
                rs == visit_mut("visit_mut_opt_expr", node.super_class, 0, rb.st)
            IN R([node EXCEPT !.body = rb.node, !.super_class = rs.node], rs.st)
      [] method = "visit_mut_decl" ->
            IF node.kind = "FnDecl"
            THEN LET r == visit_mut("visit_mut_function", node.function, 0, st)
                 IN R([node EXCEPT !.function = r.node], r.st)
            ELSE IF node.kind = "VarDecl"
            THEN LET r == visit_mut("visit_mut_var_declarators", node.decls, 1, st)
                 IN R([node EXCEPT !.decls = r.node], r.st)
            ELSE IF node.kind = "ClassDecl"
            THEN LET r == visit_mut("visit_mut_class", node.class, 0, st)
                 IN R([node EXCEPT !.class = r.node], r.st)
            ELSE R(node, st)
      [] method = "visit_mut_expr" ->
            CASE node.kind = "Call" ->
                    LET rc == visit_mut("visit_mut_expr", node.callee, 0, st)
                        ra == visit_mut("visit_mut_exprs", node.args, 1, rc.st)
                    IN R([node EXCEPT !.callee = rc.node, !.args = ra.node], ra.st)
              [] node.kind = "Paren" ->
                    LET r == visit_mut("visit_mut_expr", node.expr, 0, st)
                    IN R([node EXCEPT !.expr = r.node], r.st)
              [] node.kind = "Cond" ->
                    LET rt == visit_mut("visit_mut_expr", node.test, 0, st)
                        rc == visit_mut("visit_mut_expr", node.cons, 0, rt.st)
                        ra == visit_mut("visit_mut_expr", node.alt, 0, rc.st)
                    IN R([node EXCEPT !.test = rt.node, !.cons = rc.node,
                                      !.alt = ra.node], ra.st)
              [] node.kind = "Bin" ->
                    LET rl == visit_mut("visit_mut_expr", node.left, 0, st)
                        rr == visit_mut("visit_mut_expr", node.right, 0, rl.st)
                    IN R([node EXCEPT !.left = rl.node, !.right = rr.node], rr.st)
              [] node.kind = "Array" ->
                    LET r == visit_mut("visit_mut_exprs", node.elems, 1, st)
                    IN R([node EXCEPT !.elems = r.node], r.st)
              [] node.kind = "Member" ->
                    LET r == visit_mut("visit_mut_expr", node.obj, 0, st)
                    IN R([node EXCEPT !.obj = r.node], r.st)
              [] node.kind \in {"Unary", "Await"} ->
                    LET r == visit_mut("visit_mut_expr", node.arg, 0, st)
                    IN R([node EXCEPT !.arg = r.node], r.st)
              [] node.kind = "Arrow" ->
                    \* an arrow is not a Function: its block is walked once
                    LET r == IF node.body.kind = "BlockStmt"
                             THEN visit_mut("visit_mut_block_stmt", node.body, 0, st)
                             ELSE visit_mut("visit_mut_expr", node.body, 0, st)
                    IN R([node EXCEPT !.body = r.node], r.st)
              [] node.kind = "FnExpr" ->
                    LET r == visit_mut("visit_mut_function", node.function, 0, st)
                    IN R([node EXCEPT !.function = r.node], r.st)
              [] node.kind = "ClassExpr" ->
                    LET r == visit_mut("visit_mut_class", node.class, 0, st)
                    IN R([node EXCEPT !.class = r.node], r.st)
              [] OTHER -> R(node, st)
      [] method = "visit_mut_stmt_children" ->
            \* line 611: stmt.visit_mut_children_with(self)
            CASE node.kind \in {"FnDecl", "VarDecl", "ClassDecl"} ->
                    visit_mut("visit_mut_decl", node, 0, st)
              [] node.kind = "Return" ->
                    LET r == visit_mut("visit_mut_opt_expr", node.arg, 0, st)
                    IN R([node EXCEPT !.arg = r.node], r.st)
              [] node.kind = "ExprStmt" ->
                    LET r == visit_mut("visit_mut_expr", node.expr, 0, st)
                    IN R([node EXCEPT !.expr = r.node], r.st)
              [] node.kind = "If" ->
                    LET rt == visit_mut("visit_mut_expr", node.test, 0, st)
                        rc == visit_mut("visit_mut_stmt", node.cons, 0, rt.st)
                        ra == IF node.alt = None THEN R(None, rc.st)
                              ELSE visit_mut("visit_mut_stmt", node.alt, 0, rc.st)
                    IN R([node EXCEPT !.test = rt.node, !.cons = rc.node,
                                      !.alt = ra.node], ra.st)
              [] node.kind = "BlockStmt" -> visit_mut("visit_mut_block_stmt", node, 0, st)
              [] node.kind = "Switch" ->
                    LET r == visit_mut("visit_mut_switch_cases", node.cases, 1, st)
                    IN R([node EXCEPT !.cases = r.node], r.st)
              [] node.kind = "Try" ->
                    LET rb == visit_mut("visit_mut_block_stmt", node.block, 0, st)
                        rh == IF node.handler = None THEN R(None, rb.st)
                              ELSE LET r == visit_mut("visit_mut_block_stmt",
                                                      node.handler.body, 0, rb.st)
                                   IN R([node.handler EXCEPT !.body = r.node], r.st)
                        rf == visit_mut("visit_mut_opt_block_stmt", node.finalizer, 0, rh.st)
                    IN R([node EXCEPT !.block = rb.node, !.handler = rh.node,
                                      !.finalizer = rf.node], rf.st)
              [] node.kind \in {"For", "ForIn", "ForOf", "While", "DoWhile", "Labeled"} ->
                    LET r == visit_mut("visit_mut_stmt", node.body, 0, st)
                    IN R([node EXCEPT !.body = r.node], r.st)
              [] OTHER -> R(node, st)
      [] OTHER -> R(node, st)

visit_mut_stmt(stmt, st) == visit_mut("visit_mut_stmt", stmt, 0, st)
visit_mut_function(func, st) == visit_mut("visit_mut_function", func, 0, st)
visit_mut_expr(expr, st) == visit_mut("visit_mut_expr", expr, 0, st)
visit_mut_class(class, st) == visit_mut("visit_mut_class", class, 0, st)
visit_mut_decl(decl, st) == visit_mut("visit_mut_decl", decl, 0, st)

DefaultComponent == quote_ident("DefaultComponent")

\* item.visit_mut_children_with(self): the default traversal of a module item
visit_mut_module_item_children(item, st) ==
    CASE item.kind = "Import" -> R(item, st)
      [] item.kind = "ExportDefaultDecl" ->
            IF item.decl.kind = "FnExpr"
            THEN LET r == visit_mut_function(item.decl.function, st)
                 IN R([item EXCEPT !.decl.function = r.node], r.st)
            ELSE IF item.decl.kind = "ClassExpr"
            THEN LET r == visit_mut_class(item.decl.class, st)
                 IN R([item EXCEPT !.decl.class = r.node], r.st)
            ELSE R(item, st)
      [] item.kind = "ExportDefaultExpr" ->
            LET r == visit_mut_expr(item.expr, st)
            IN R([item EXCEPT !.expr = r.node], r.st)
      [] item.kind = "ExportDecl" ->
            LET r == visit_mut_decl(item.decl, st)
            IN R([item EXCEPT !.decl = r.node], r.st)
      [] OTHER -> visit_mut_stmt(item, st)

visit_mut_module_item(item, st) ==
    CASE item.kind = "FnDecl" /\ is_rask_component(item.function) ->
            transform_to_stateful_class(item.ident, item.function, st)
      [] item.kind = "FnDecl" /\ ~is_rask_component(item.function)
                              /\ is_stateless_component(item.function) ->
            transform_to_stateless_class(item.ident, item.function, st)
      [] /\ item.kind = "ExportDefaultDecl"
         /\ item.decl.kind = "FnExpr"
         /\ (is_rask_component(item.decl.function)
                \/ is_stateless_component(item.decl.function)) ->
            LET name == IF item.decl.ident = None THEN DefaultComponent
                        ELSE item.decl.ident
                r == create_component_class_expr(name, item.decl.function,
                        is_rask_component(item.decl.function), st)
            IN R([item EXCEPT !.decl = r.node], r.st)
      [] /\ item.kind = "ExportDefaultExpr"
         /\ item.expr.kind = "Arrow"
         /\ (is_rask_component(arrow_to_function(item.expr))
                \/ is_stateless_component(arrow_to_function(item.expr))) ->
            LET func == arrow_to_function(item.expr)
                r == create_component_class_expr(DefaultComponent, func,
                        is_rask_component(func), st)
            IN R([item EXCEPT !.expr = r.node], r.st)
      [] /\ item.kind = "ExportDecl"
         /\ item.decl.kind = "FnDecl"
         /\ is_rask_component(item.decl.function) ->
            LET r == transform_to_stateful_class(item.decl.ident, item.decl.function, st)
            IN R([item EXCEPT !.decl = r.node], r.st)
      [] /\ item.kind = "ExportDecl"
         /\ item.decl.kind = "FnDecl"
         /\ ~is_rask_component(item.decl.function)
         /\ is_stateless_component(item.decl.function) ->
            LET r == transform_to_stateless_class(item.decl.ident, item.decl.function, st)
            IN R([item EXCEPT !.decl = r.node], r.st)
      [] OTHER -> visit_mut_module_item_children(item, st)

\* ------------------------------------------------------------------------
\* Import coordinator
\* ------------------------------------------------------------------------

DefaultImportSource == "rask-ui"

\* lines 420-425 / 445-450: config.import_source, or the default
import_source_of(cfg) ==
    IF cfg.import_source = None THEN DefaultImportSource ELSE cfg.import_source.value

\* variant: the default source is used whatever the configuration says
rewrite_inferno_imports_default(body, cfg) ==
    LET compiler_import == DefaultImportSource \o "/compiler"
    IN [i \in DOMAIN body |->
          IF body[i].kind = "Import" /\ body[i].src = "inferno"
          THEN [body[i] EXCEPT !.src = compiler_import]
          ELSE body[i]]

rewrite_inferno_imports(body, cfg) ==
    LET compiler_import == import_source_of(cfg) \o "/compiler"
    IN [i \in DOMAIN body |->
          IF body[i].kind = "Import" /\ body[i].src = "inferno"
          THEN [body[i] EXCEPT !.src = compiler_import]
          ELSE body[i]]

\* lines 457-476 / 491-510: is the base class already imported from the source
import_exists(body, source, name) ==
    \E i \in DOMAIN body :
        /\ body[i].kind = "Import"
        /\ body[i].src = source
        /\ \E j \in DOMAIN body[i].specifiers :
              LET spec == body[i].specifiers[j] IN
              /\ spec.kind = "Named"
              /\ IF spec.imported.kind = "Ident"
                 THEN spec.imported.sym = name
                 ELSE spec.local.sym = name

\* variant: the import declaration is built even when no specifier is needed
inject_runtime_always(body, cfg, st) ==
    LET source == import_source_of(cfg)
        stateful_spec ==
            IF /\ st.stateful # None
               /\ ~import_exists(body, source, "RaskStatefulComponent")
            THEN <<ImportNamedSpecifier(st.stateful, quote_ident("RaskStatefulComponent"))>>
            ELSE <<>>
        stateless_spec ==
            IF /\ st.stateless # None
               /\ ~import_exists(body, source, "RaskStatelessComponent")
            THEN <<ImportNamedSpecifier(st.stateless, quote_ident("RaskStatelessComponent"))>>
            ELSE <<>>
    IN <<ImportDecl(source, stateful_spec \o stateless_spec)>> \o body

\* variant: one import declaration is pushed per specifier, at the end
inject_runtime_appended(body, cfg, st) ==
    LET source == import_source_of(cfg)
        stateful_import ==
            IF /\ st.stateful # None
               /\ ~import_exists(body, source, "RaskStatefulComponent")
            THEN <<ImportDecl(source,
                     <<ImportNamedSpecifier(st.stateful, quote_ident("RaskStatefulComponent"))>>)>>
            ELSE <<>>
        stateless_import ==
            IF /\ st.stateless # None
               /\ ~import_exists(body, source, "RaskStatelessComponent")
            THEN <<ImportDecl(source,
                     <<ImportNamedSpecifier(st.stateless, quote_ident("RaskStatelessComponent"))>>)>>
            ELSE <<>>
    IN body \o stateful_import \o stateless_import

inject_runtime(body, cfg, st) ==
    LET source == import_source_of(cfg)
        stateful_spec ==
            IF /\ st.stateful # None
               /\ ~import_exists(body, source, "RaskStatefulComponent")
            THEN <<ImportNamedSpecifier(st.stateful, quote_ident("RaskStatefulComponent"))>>
            ELSE <<>>
        stateless_spec ==
            IF /\ st.stateless # None
               /\ ~import_exists(body, source, "RaskStatelessComponent")
            THEN <<ImportNamedSpecifier(st.stateless, quote_ident("RaskStatelessComponent"))>>
            ELSE <<>>
        specifiers == stateful_spec \o stateless_spec
    IN IF specifiers # <<>>
       THEN <<ImportDecl(source, specifiers)>> \o body
       ELSE body

\* ------------------------------------------------------------------------
\* Input modules
\* ------------------------------------------------------------------------

MaxItems == 2
MaxRuns == 2

X == Ident("x")
Marker == Call(Ident("createVNode"), <<>>)

Fn(stmts) == Function(<<"props">>, BlockStmt(stmts), FALSE, FALSE)
ArrowOf(body) == Arrow(<<"props">>, body, FALSE)

\* function bodies: stateless, stateful, one with two top-level returns, and
\* one that is no component
F_stateless == Fn(<<Return(Marker)>>)
F_stateful == Fn(<<Return(ArrowOf(Marker))>>)
F_two_returns == Fn(<<Return(Marker), Return(ArrowOf(Marker))>>)
F_plain == Fn(<<ExprStmt(Marker), Return(X)>>)

Inner == FnDecl(Ident("Inner"), F_stateless)
Inner2 == FnDecl(Ident("Inner2"), F_stateful)
\* a component declaration that itself contains a component declaration
Mid == FnDecl(Ident("Mid"), Fn(<<Inner, Return(Marker)>>))

\* a plain function enclosing component declarations
F_helper == Fn(<<Inner, If(X, BlockStmt(<<Inner2>>), None), Return(X)>>)
F_helper_deep == Fn(<<Mid, Return(X)>>)
\* components enclosing a component declaration
F_stateless_outer == Fn(<<Inner, Return(Marker)>>)
F_stateful_outer == Fn(<<Inner, Return(ArrowOf(Marker))>>)

\* generated shapes: expressions and statements nested up to a depth
MaxExprDepth == 1
MaxStmtDepth == 1

Foo == Call(Ident("foo"), <<>>)

Exprs0 == {X, Foo} \cup {Call(Ident(n), <<>>) : n \in VNodeNames}

ExprWrap(e) ==
    { Paren(e), Cond(X, e, X), Cond(X, X, e), Cond(e, X, X), Bin(e, X), Bin(X, e),
      Array(<<e>>), Array(<<None, e>>), Member(e, "p"), Unary(e), Await(e),
      Call(Ident("foo"), <<X, e>>), Call(Member(e, "map"), <<>>),
      ArrowOf(e), ArrowOf(BlockStmt(<<ExprStmt(X), Return(e)>>)),
      ArrowOf(BlockStmt(<<If(X, Return(e), None)>>)) }

RECURSIVE Exprs(_)
Exprs(d) ==
    IF d = 0 THEN Exprs0
    ELSE Exprs0 \cup UNION {ExprWrap(e) : e \in Exprs(d - 1)}

Stmts0 == {Return(Marker), Return(X), Return(None), ExprStmt(Marker), Inner}

StmtWrap(s) ==
    { If(X, s, None), If(X, ExprStmt(X), s), BlockStmt(<<Return(X), s>>),
      Switch(<<SwitchCase(<<>>), SwitchCase(<<ExprStmt(X), s>>)>>),
      Try(BlockStmt(<<s>>), None, None),
      Try(BlockStmt(<<>>), CatchClause(BlockStmt(<<s>>)), None),
      Try(BlockStmt(<<>>), None, BlockStmt(<<s>>)),
      For(s), ForIn(s), ForOf(s), While(s), DoWhile(s), Labeled(s) }

RECURSIVE Stmts(_)
Stmts(d) ==
    IF d = 0 THEN Stmts0
    ELSE Stmts0 \cup UNION {StmtWrap(s) : s \in Stmts(d - 1)}

TwoReturnArgs == {X, Marker, ArrowOf(Marker), ArrowOf(X), None}

GeneratedFunctions ==
    {Fn(<<Return(e)>>) : e \in Exprs(MaxExprDepth)}
    \cup {Fn(<<s>>) : s \in Stmts(MaxStmtDepth)}
    \cup {Fn(<<Return(ArrowOf(BlockStmt(<<ExprStmt(X), s>>)))>>) : s \in Stmts(MaxStmtDepth)}
    \cup {Fn(<<Return(a), Return(b)>>) : a \in TwoReturnArgs, b \in TwoReturnArgs}
    \cup {Function(<<>>, None, FALSE, FALSE),
          Function(<<"a", "b">>, BlockStmt(<<ExprStmt(Foo), Return(Marker)>>), TRUE, FALSE),
          Function(<<>>, BlockStmt(<<Return(ArrowOf(Marker)), ExprStmt(Foo)>>), FALSE, TRUE)}

\* one-item modules over the generated shapes, as a declaration and as the
\* arrow initialiser of a variable
GeneratedModules ==
    {<<FnDecl(Ident("A"), f)>> : f \in GeneratedFunctions}
    \cup {<<VarDecl(<<VarDeclarator(PatIdent(Ident("A")), Arrow(<<"p">>, e, a))>>)>> :
             e \in Exprs(MaxExprDepth), a \in BOOLEAN}

\* one-item modules around variable declarators: a component arrow bound in the
\* body of a plain function and in the body of a component, a destructuring
\* binding of a component arrow that encloses a component declaration, an
\* exported stateful arrow, and a declarator without initialiser
DeclaratorModules ==
    { <<FnDecl(Ident("A"),
            Fn(<<VarDecl(<<VarDeclarator(PatIdent(Ident("Inner")), ArrowOf(Marker))>>),
                 Return(X)>>))>>,
      <<FnDecl(Ident("A"),
            Fn(<<VarDecl(<<VarDeclarator(PatIdent(Ident("Inner")),
                                         ArrowOf(ArrowOf(Marker)))>>),
                 Return(Marker)>>))>>,
      <<VarDecl(<<VarDeclarator(PatObject("A"),
                                ArrowOf(BlockStmt(<<Inner, Return(Marker)>>)))>>)>>,
      <<ExportDecl(VarDecl(<<VarDeclarator(PatIdent(Ident("A")),
                                           ArrowOf(ArrowOf(Marker)))>>))>>,
      <<VarDecl(<<VarDeclarator(PatIdent(Ident("A")), None)>>)>> }

PosNames == <<"A", "B", "C", "D">>

ImportItems ==
    { ImportDecl("inferno", <<ImportNamedSpecifier(Ident("createVNode"), None)>>),
      ImportDecl("other", <<ImportNamedSpecifier(Ident("RaskStatefulComponent"), None)>>),
      ImportDecl("rask-ui", <<ImportNamedSpecifier(Ident("RaskStatefulComponent"), None)>>),
      ImportDecl("rask-ui",
          <<ImportNamedSpecifier(Ident("Base"), Ident("RaskStatelessComponent")),
            ImportNamedSpecifier(Ident("RaskStatefulComponent"), None)>>),
      ImportDecl("custom-ui",
          <<ImportDefaultSpecifier(Ident("RaskStatefulComponent")),
            ImportNamedSpecifier(Ident("RaskStatefulComponent"), None)>>),
      ImportDecl("rask-ui",
          <<ImportNamedSpecifier(Ident("Base"), Str("RaskStatefulComponent"))>>) }

Catalogue(n) ==
    LET id == Ident(n) IN
    ImportItems \cup
    { FnDecl(id, F_stateless),
      FnDecl(id, F_stateful),
      FnDecl(id, F_two_returns),
      FnDecl(id, F_plain),
      FnDecl(id, F_helper),
      FnDecl(id, F_helper_deep),
      FnDecl(id, F_stateless_outer),
      ExportDecl(FnDecl(id, F_stateful)),
      ExportDecl(FnDecl(id, F_helper)),
      ExportDecl(VarDecl(<<VarDeclarator(PatIdent(id), ArrowOf(Marker))>>)),
      ExportDefaultDecl(FnExpr(id, F_stateless)),
      ExportDefaultDecl(FnExpr(None, F_stateful_outer)),
      ExportDefaultDecl(FnExpr(id, F_helper)),
      ExportDefaultExpr(ArrowOf(ArrowOf(Marker))),
      VarDecl(<<VarDeclarator(PatIdent(id), ArrowOf(Marker)),
                VarDeclarator(PatIdent(Ident(n \o "2")), ArrowOf(ArrowOf(Marker)))>>),
      VarDecl(<<VarDeclarator(PatObject(n), ArrowOf(Marker))>>),
      VarDecl(<<VarDeclarator(PatIdent(id), FnExpr(None, F_helper))>>),
      VarDecl(<<VarDeclarator(PatIdent(id),
                    ArrowOf(BlockStmt(<<Inner, Return(Marker)>>)))>>),
      VarDecl(<<VarDeclarator(PatIdent(id),
                    ArrowOf(BlockStmt(<<Mid, ExprStmt(X)>>)))>>) }

RECURSIVE Modules(_)
Modules(n) ==
    IF n = 0 THEN {<<>>}
    ELSE {Append(m, item) : m \in Modules(n - 1), item \in Catalogue(PosNames[n])}

Configs == {[import_source |-> None], [import_source |-> Str("custom-ui")]}

\* ------------------------------------------------------------------------
\* The transform as a state machine
\* ------------------------------------------------------------------------

VARIABLES
    config,                              \* RaskComponentTransform.config
    import_rask_stateful_component,      \* Option<Ident>
    import_rask_stateless_component,     \* Option<Ident>
    mark,                                \* last hygiene mark handed out
    module,                              \* module.body, mutated in place
    input,                               \* module.body as handed to this run
    idx,                                 \* next module item to visit
    pc,                                  \* position inside visit_mut_module
    run                                  \* number of the current run

vars == <<config, import_rask_stateful_component, import_rask_stateless_component,
          mark, module, input, idx, pc, run>>

TransformState ==
    [stateful |-> import_rask_stateful_component,
     stateless |-> import_rask_stateless_component,
     mark |-> mark]

Init ==
    /\ config \in Configs
    /\ import_rask_stateful_component = None
    /\ import_rask_stateless_component = None
    /\ mark = 0
    /\ module \in UNION {Modules(n) : n \in 0..MaxItems}
                    \cup GeneratedModules \cup DeclaratorModules
    /\ input = module
    /\ idx = 1
    /\ pc = "visit"
    /\ run = 1

\* module.visit_mut_children_with(self): one module item is visited
VisitModuleItem ==
    /\ pc = "visit"
    /\ idx <= Len(module)
    /\ LET r == visit_mut_module_item(module[idx], TransformState) IN
       /\ module' = [module EXCEPT ![idx] = r.node]
       /\ import_rask_stateful_component' = r.st.stateful
       /\ import_rask_stateless_component' = r.st.stateless
       /\ mark' = r.st.mark
    /\ idx' = idx + 1
    /\ UNCHANGED <<config, input, pc, run>>

RewriteInfernoImports ==
    /\ pc = "visit"
    /\ idx > Len(module)
    /\ module' = rewrite_inferno_imports(module, config)
    /\ pc' = "inject"
    /\ UNCHANGED <<config, import_rask_stateful_component,
                   import_rask_stateless_component, mark, input, idx, run>>

InjectRuntime ==
    /\ pc = "inject"
    /\ module' = inject_runtime(module, config, TransformState)
    /\ pc' = "done"
    /\ UNCHANGED <<config, import_rask_stateful_component,
                   import_rask_stateless_component, mark, input, idx, run>>

\* process_transform is invoked again, on the module the previous run returned
ProcessTransform ==
    /\ pc = "done"
    /\ run < MaxRuns
    /\ input' = module
    /\ import_rask_stateful_component' = None
    /\ import_rask_stateless_component' = None
    /\ idx' = 1
    /\ pc' = "visit"
    /\ run' = run + 1
    /\ UNCHANGED <<config, mark, module>>

Next ==
    \/ VisitModuleItem
    \/ RewriteInfernoImports
    \/ InjectRuntime
    \/ ProcessTransform

Spec == Init /\ [][Next]_vars

TypeOK ==
    /\ pc \in {"visit", "inject", "done"}
    /\ run \in 1..MaxRuns
    /\ idx \in 1..(Len(module) + 1)
    /\ import_rask_stateful_component.kind \in {"None", "Ident"}
    /\ import_rask_stateless_component.kind \in {"None", "Ident"}

\* ------------------------------------------------------------------------
\* Vocabulary of the properties
\* ------------------------------------------------------------------------

Range(seq) == {seq[i] : i \in DOMAIN seq}

\* number of module items the run has inserted so far
Off == Len(module) - Len(input)

\* the module item that now stands where input[i] stood
Out(i) == module[i + Off]

Visited(i) == pc # "visit" \/ i < idx

TopLevelReturns(func) ==
    {i \in DOMAIN func.body.stmts : func.body.stmts[i].kind = "Return"}

DirectMarkerCall(e) ==
    /\ e.kind = "Call"
    /\ e.callee.kind = "Ident"
    /\ e.callee.sym \in VNodeNames

\* the statements directly under a control-flow statement
ControlFlowChildren(stmt) ==
    CASE stmt.kind = "If" -> {stmt.cons} \cup (IF stmt.alt = None THEN {} ELSE {stmt.alt})
      [] stmt.kind = "BlockStmt" -> Range(stmt.stmts)
      [] stmt.kind = "Switch" -> UNION {Range(stmt.cases[c].cons) : c \in DOMAIN stmt.cases}
      [] stmt.kind = "Try" ->
            Range(stmt.block.stmts)
            \cup (IF stmt.handler = None THEN {} ELSE Range(stmt.handler.body.stmts))
            \cup (IF stmt.finalizer = None THEN {} ELSE Range(stmt.finalizer.stmts))
      [] stmt.kind \in {"For", "ForIn", "ForOf", "While", "DoWhile", "Labeled"} ->
            {stmt.body}
      [] OTHER -> {}

\* the return statements reachable from stmt through control flow only
RECURSIVE ReachableReturns(_)
ReachableReturns(stmt) ==
    IF stmt.kind = "Return" THEN {stmt}
    ELSE UNION {ReachableReturns(c) : c \in ControlFlowChildren(stmt)}

\* the only top-level return yields a direct marker call
StatelessShape(func) ==
    /\ func.body # None
    /\ Cardinality(TopLevelReturns(func)) = 1
    /\ \A i \in TopLevelReturns(func) : DirectMarkerCall(func.body.stmts[i].arg)

\* the only top-level return yields an arrow whose expression body is a marker
\* call, or whose block body reaches a return of a marker call
StatefulShape(func) ==
    /\ func.body # None
    /\ Cardinality(TopLevelReturns(func)) = 1
    /\ \A i \in TopLevelReturns(func) :
          LET arg == func.body.stmts[i].arg IN
          /\ arg.kind = "Arrow"
          /\ IF arg.body.kind = "BlockStmt"
             THEN \E r \in ReachableReturns(arg.body) : DirectMarkerCall(r.arg)
             ELSE DirectMarkerCall(arg.body)

IsComponent(func) == is_rask_component(func) \/ is_stateless_component(func)

\* the candidates of a module item the walker dispatches on, each with the
\* node that stands at the candidate's place in the output item:
\* declarations, exported and default-exported functions, default-exported
\* arrows, arrow initialisers bound to an identifier, and the declarations
\* directly in the body of a top-level function that is not a component
Sites(in, out) ==
    CASE in.kind = "FnDecl" ->
            {<<in.function, out>>}
            \cup (IF IsComponent(in.function) \/ in.function.body = None THEN {}
                  ELSE {<<in.function.body.stmts[j].function,
                          out.function.body.stmts[j]>> :
                           j \in {k \in DOMAIN in.function.body.stmts :
                                     in.function.body.stmts[k].kind = "FnDecl"}})
      [] in.kind = "ExportDecl" /\ in.decl.kind = "FnDecl" -> {<<in.decl.function, out.decl>>}
      [] in.kind = "ExportDefaultDecl" /\ in.decl.kind = "FnExpr" ->
            {<<in.decl.function, out.decl>>}
      [] in.kind = "ExportDefaultExpr" /\ in.expr.kind = "Arrow" ->
            {<<arrow_to_function(in.expr), out.expr>>}
      [] in.kind = "VarDecl" ->
            {<<arrow_to_function(in.decls[j].init), out.decls[j].init>> :
                j \in {k \in DOMAIN in.decls : /\ in.decls[k].init.kind = "Arrow"
                                               /\ in.decls[k].name.kind = "PatIdent"}}
      [] OTHER -> {}

VisitedSites ==
    UNION {Sites(input[i], Out(i)) : i \in {k \in DOMAIN input : Visited(k)}}

\* node is a class with the single property key, extending the binding slot
ComponentClass(node, key, slot) ==
    /\ node.kind \in {"ClassDecl", "ClassExpr"}
    /\ Len(node.class.body) = 1
    /\ node.class.body[1].kind = "ClassProp"
    /\ node.class.body[1].key = key
    /\ slot # None
    /\ node.class.super_class = slot

\* the child nodes of a syntax tree node
Children(n) ==
    CASE n.kind = "Call" -> {n.callee} \cup Range(n.args)
      [] n.kind \in {"Paren", "ExprStmt", "ExportDefaultExpr"} -> {n.expr}
      [] n.kind \in {"Cond", "If"} -> {n.test, n.cons, n.alt}
      [] n.kind = "Bin" -> {n.left, n.right}
      [] n.kind = "Array" -> Range(n.elems)
      [] n.kind = "Member" -> {n.obj}
      [] n.kind \in {"Unary", "Await", "Return"} -> {n.arg}
      [] n.kind \in {"Arrow", "Function", "CatchClause", "For", "ForIn", "ForOf",
                     "While", "DoWhile", "Labeled"} -> {n.body}
      [] n.kind = "BlockStmt" -> Range(n.stmts)
      [] n.kind \in {"FnExpr", "FnDecl"} -> {n.function}
      [] n.kind = "ClassProp" -> {n.value}
      [] n.kind = "Class" -> Range(n.body) \cup {n.super_class}
      [] n.kind \in {"ClassExpr", "ClassDecl"} -> {n.class}
      [] n.kind = "Switch" -> Range(n.cases)
      [] n.kind = "SwitchCase" -> Range(n.cons)
      [] n.kind = "Try" -> {n.block, n.handler, n.finalizer}
      [] n.kind = "VarDecl" -> Range(n.decls)
      [] n.kind = "VarDeclarator" -> {n.init}
      [] n.kind \in {"ExportDecl", "ExportDefaultDecl"} -> {n.decl}
      [] OTHER -> {}

\* a node and everything below it
RECURSIVE Nodes(_)
Nodes(n) == {n} \cup UNION {Nodes(c) : c \in Children(n)}

NodesOf(body) == UNION {Nodes(body[i]) : i \in DOMAIN body}

\* no function or arrow anywhere in the module satisfies a component predicate
NoComponentIn(body) ==
    \A n \in NodesOf(body) :
        /\ n.kind = "Function" => ~IsComponent(n)
        /\ n.kind = "Arrow" => ~IsComponent(arrow_to_function(n))

BaseClasses == {"RaskStatefulComponent", "RaskStatelessComponent"}

Slot(base) ==
    IF base = "RaskStatefulComponent" THEN import_rask_stateful_component
    ELSE import_rask_stateless_component

\* the source the configuration names, and the compiled-artifact path under it
ConfiguredSource ==
    IF config.import_source = None THEN "rask-ui" ELSE config.import_source.value

CompilerSource == ConfiguredSource \o "/compiler"

\* the name a named import specifier imports: its imported name, or its local
\* name when it is not aliased
ImportedName(spec) ==
    IF spec.imported = None THEN spec.local.sym
    ELSE IF spec.imported.kind = "Ident" THEN spec.imported.sym
    ELSE spec.imported.value

AlreadyImports(body, base) ==
    \E i \in DOMAIN body :
        /\ body[i].kind = "Import"
        /\ body[i].src = ConfiguredSource
        /\ \E j \in DOMAIN body[i].specifiers :
              /\ body[i].specifiers[j].kind = "Named"
              /\ ImportedName(body[i].specifiers[j]) = base

\* the run has injected an import specifier for the base class
InjectedSpecifier(base) ==
    /\ Off = 1
    /\ \E j \in DOMAIN module[1].specifiers :
          ImportedName(module[1].specifiers[j]) = base

\* what a module item declares, whatever its declaration has been rewritten to
ItemKey(item) ==
    CASE item.kind = "Import" ->
            [cat |-> "Import",
             names |-> [j \in DOMAIN item.specifiers |-> item.specifiers[j].local.sym]]
      [] item.kind \in {"FnDecl", "ClassDecl"} ->
            [cat |-> "Stmt", names |-> <<item.ident.sym>>]
      [] item.kind = "VarDecl" ->
            [cat |-> "Stmt",
             names |-> [j \in DOMAIN item.decls |->
                          IF item.decls[j].name.kind = "PatIdent"
                          THEN item.decls[j].name.id.sym ELSE item.decls[j].name.key]]
      [] item.kind = "ExportDecl" /\ item.decl.kind \in {"FnDecl", "ClassDecl"} ->
            [cat |-> "ExportDecl", names |-> <<item.decl.ident.sym>>]
      [] item.kind = "ExportDecl" /\ item.decl.kind = "VarDecl" ->
            [cat |-> "ExportDecl",
             names |-> [j \in DOMAIN item.decl.decls |-> item.decl.decls[j].name.id.sym]]
      [] OTHER -> [cat |-> "ExportDefault", names |-> <<>>]

\* ------------------------------------------------------------------------
\* Properties
\* ------------------------------------------------------------------------

\* C1: a candidate whose only top-level return yields a direct marker call is
\* classified Stateless and replaced by a class whose single member is the
\* property renderFn and whose superclass is the stateless binding.
C1_StatelessRewritten ==
    \A p \in VisitedSites :
        StatelessShape(p[1]) =>
            /\ is_stateless_component(p[1])
            /\ ~is_rask_component(p[1])
            /\ ComponentClass(p[2], "renderFn", import_rask_stateless_component)

C1_Witness ==
    /\ pc = "done"
    /\ \E p \in VisitedSites :
          /\ StatelessShape(p[1])
          /\ p[2].kind = "ClassExpr"
    /\ \E p \in VisitedSites :
          /\ StatelessShape(p[1])
          /\ p[2].kind = "ClassDecl"

\* C2: a candidate whose only top-level return yields an arrow whose body
\* reaches a marker call (expression body, or a return nested under control
\* flow) is classified Stateful and replaced by a class whose single member is
\* the property setup and whose superclass is the stateful binding.
C2_StatefulRewritten ==
    \A p \in VisitedSites :
        StatefulShape(p[1]) =>
            /\ is_rask_component(p[1])
            /\ ComponentClass(p[2], "setup", import_rask_stateful_component)

C2_Witness ==
    /\ pc = "done"
    /\ \E p \in VisitedSites :
          /\ StatefulShape(p[1])
          /\ \E i \in TopLevelReturns(p[1]) :
                LET arg == p[1].body.stmts[i].arg IN
                /\ arg.body.kind = "BlockStmt"
                /\ \E s \in Range(arg.body.stmts) : s.kind = "Try" /\ s.finalizer # None
          /\ p[2].kind = "ClassDecl"

\* C3 (as claimed): when no declaration of the module matches either component
\* predicate, the transform returns the module unchanged.
C3_ModuleUnchanged ==
    (pc = "done" /\ NoComponentIn(input)) => module = input

\* C3 (amended): when no declaration matches, no binding is allocated, no
\* import is injected and no item is changed, except that every import from
\* "inferno" has its source rewritten to "<configuredSource>/compiler".
C3_OnlyInfernoRewritten ==
    (pc = "done" /\ NoComponentIn(input)) =>
        /\ import_rask_stateful_component = None
        /\ import_rask_stateless_component = None
        /\ Len(module) = Len(input)
        /\ \A i \in DOMAIN input :
              IF input[i].kind = "Import" /\ input[i].src = "inferno"
              THEN module[i] = [input[i] EXCEPT !.src = CompilerSource]
              ELSE module[i] = input[i]

C3_Witness ==
    /\ pc = "done"
    /\ NoComponentIn(input)
    /\ \E i \in DOMAIN input : input[i].kind = "Import" /\ input[i].src = "inferno"
    /\ \E i \in DOMAIN input : input[i].kind = "FnDecl"

\* C4: when the module already imports a base class from the configured source
\* (by imported name or, if unaliased, by local name) no specifier for it is
\* injected, and when every needed base class is already imported no import
\* declaration is inserted.
C4_InjectionIdempotent ==
    pc = "done" =>
        /\ \A base \in BaseClasses :
              AlreadyImports(input, base) => ~InjectedSpecifier(base)
        /\ (\A base \in BaseClasses : Slot(base) # None => AlreadyImports(input, base))
              => Off = 0

\* C5: a run inserts at most one module item, an import at index 0 with at
\* most one specifier per base class; every original item keeps its place
\* relative to the others and none is removed.
C5_OneImportOrderKept ==
    /\ Off \in {0, 1}
    /\ pc # "done" => Off = 0
    /\ Off = 1 =>
          /\ module[1].kind = "Import"
          /\ module[1].src = ConfiguredSource
          /\ Len(module[1].specifiers) \in 1..2
          /\ \A j, k \in DOMAIN module[1].specifiers :
                /\ module[1].specifiers[j].kind = "Named"
                /\ ImportedName(module[1].specifiers[j]) \in BaseClasses
                /\ ImportedName(module[1].specifiers[j]) = ImportedName(module[1].specifiers[k])
                      => j = k
    /\ \A i \in DOMAIN input : ItemKey(Out(i)) = ItemKey(input[i])

C5_Witness ==
    /\ pc = "done"
    /\ Off = 1
    /\ Len(module[1].specifiers) = 2
    /\ Len(input) = 2
    /\ \A i \in DOMAIN input : input[i].kind # "Import" /\ Out(i) # input[i]

\* C6: every import from "inferno" gets the source "<configuredSource>/compiler"
\* ("rask-ui" when importSource is absent), once; the source and specifiers of
\* every other import are left as they were.
C6_InfernoSourceRewritten ==
    \A i \in DOMAIN input :
        input[i].kind = "Import" =>
            /\ Out(i).kind = "Import"
            /\ Out(i).specifiers = input[i].specifiers
            /\ Out(i).src = IF pc # "visit" /\ input[i].src = "inferno"
                            THEN CompilerSource ELSE input[i].src

C6_Witness ==
    /\ pc = "done"
    /\ config.import_source # None
    /\ \E i \in DOMAIN input : input[i].kind = "Import" /\ input[i].src = "inferno"
    /\ \E i \in DOMAIN input : input[i].kind = "Import" /\ input[i].src = "rask-ui"

\* C7: the transform is idempotent on its own output: a second run with the
\* same configuration returns the module it was given.
C7_Idempotent ==
    (pc = "done" /\ run > 1) => module = input

\* the classes of the module that extend a private (transform-allocated)
\* identifier, that is, the classes a run has produced
ProducedClasses ==
    {n \in NodesOf(module) : /\ n.kind = "Class"
                             /\ n.super_class.kind = "Ident"
                             /\ n.super_class.ctxt # 0}

BindingsUsed ==
    /\ run = 1 =>
          \A c \in ProducedClasses :
              /\ Len(c.body) = 1
              /\ c.body[1].key \in {"setup", "renderFn"}
              /\ c.body[1].key = "setup" => c.super_class = import_rask_stateful_component
              /\ c.body[1].key = "renderFn" => c.super_class = import_rask_stateless_component
    /\ import_rask_stateful_component # None =>
          \E c \in ProducedClasses :
              c.body[1].key = "setup" /\ c.super_class = import_rask_stateful_component
    /\ import_rask_stateless_component # None =>
          \E c \in ProducedClasses :
              c.body[1].key = "renderFn" /\ c.super_class = import_rask_stateless_component

\* C8: within one run each binding slot, once set, is never changed or
\* cleared; every class of a classification produced in the module extends
\* that one identifier; and a slot is set only when a component of its
\* classification has been rewritten.
C8_BindingsStable ==
    [][/\ run' = run =>
            /\ import_rask_stateful_component # None =>
                  import_rask_stateful_component' = import_rask_stateful_component
            /\ import_rask_stateless_component # None =>
                  import_rask_stateless_component' = import_rask_stateless_component
       /\ BindingsUsed']_vars

C8_Witness ==
    /\ pc = "done"
    /\ run = 1
    /\ import_rask_stateless_component # None
    /\ \E a, b \in NodesOf(module) :
          /\ a.kind = "ClassDecl"
          /\ b.kind = "ClassExpr"
          /\ a.class.super_class = import_rask_stateful_component
          /\ b.class.super_class = import_rask_stateful_component

\* the candidate functions of the input module
Candidates == {p[1] : p \in UNION {Sites(input[i], input[i]) : i \in DOMAIN input}}

BothPredicates(func) == is_stateless_component(func) /\ is_rask_component(func)

\* C9 (as claimed): for every canonical function, with any number of
\* top-level returns, the two predicates are never both true.
C9_MutuallyExclusive ==
    \A f \in Candidates : ~BothPredicates(f)

\* C9 (amended): the two predicates are never both true of a function with at
\* most one top-level return; with several top-level returns both can hold,
\* and the candidate is then rewritten as Stateful only.
C9_ExclusiveOnSingleReturn ==
    /\ \A f \in Candidates :
          (f.body # None /\ Cardinality(TopLevelReturns(f)) <= 1) => ~BothPredicates(f)
    /\ \A p \in VisitedSites :
          BothPredicates(p[1]) =>
              ComponentClass(p[2], "setup", import_rask_stateful_component)

C9_Witness ==
    /\ pc = "done"
    /\ \E p \in VisitedSites :
          /\ BothPredicates(p[1])
          /\ p[2].kind = "ClassDecl"
    /\ \E p \in VisitedSites :
          /\ Cardinality(TopLevelReturns(p[1])) = 1
          /\ is_rask_component(p[1])
          /\ \A i \in TopLevelReturns(p[1]) : has_vnode_call(p[1].body.stmts[i].arg)

\* C10: after a run, no component-shaped function declaration is left
\* unrewritten anywhere inside the body of a function of the module.
C10_NestedRewritten ==
    pc = "done" =>
        \A f \in NodesOf(module) :
            (f.kind = "Function" /\ f.body # None) =>
                \A d \in Nodes(f.body) :
                    ~(d.kind = "FnDecl" /\ IsComponent(d.function))

\* every change a second run makes is the rewrite of a nested declaration or
\* declarator that the first run left behind
RerunOnlyCatchesUp ==
    (pc = "done" /\ run > 1 /\ module # input) =>
        \E f \in NodesOf(input) :
            /\ f.kind = "Function"
            /\ f.body # None
            /\ \E d \in Nodes(f.body) :
                  \/ d.kind = "FnDecl" /\ IsComponent(d.function)
                  \/ /\ d.kind = "VarDeclarator"
                     /\ d.name.kind = "PatIdent"
                     /\ d.init.kind = "Arrow"
                     /\ IsComponent(arrow_to_function(d.init))

\* the module item the walker has just visited, as it was and as it is now
JustVisited == pc = "visit" /\ idx > 1
LastIn == input[idx - 1]
LastOut == module[idx - 1]

\* the function of a top-level declaration, whether or not it was rewritten
StoredFunction(out) ==
    IF out.kind = "FnDecl" THEN out.function ELSE out.class.body[1].value.function

\* the declarators of a list, each with the declarator now standing in its place
DeclaratorPairs(in, out) == {<<in[j], out[j]>> : j \in DOMAIN in}

\* the variable declarators of a module item at the three positions: top-level
\* statement, declaration of a named export, statement of a function body
TopLevelDeclarators(in, out) ==
    IF in.kind = "VarDecl" THEN DeclaratorPairs(in.decls, out.decls) ELSE {}

ExportedDeclarators(in, out) ==
    IF in.kind = "ExportDecl" /\ in.decl.kind = "VarDecl"
    THEN DeclaratorPairs(in.decl.decls, out.decl.decls) ELSE {}

NestedDeclarators(in, out) ==
    IF in.kind = "FnDecl" /\ in.function.body # None
    THEN UNION {DeclaratorPairs(in.function.body.stmts[k].decls,
                                StoredFunction(out).body.stmts[k].decls) :
                   k \in {j \in DOMAIN in.function.body.stmts :
                             in.function.body.stmts[j].kind = "VarDecl"}}
    ELSE {}

\* a simple identifier bound to a component-shaped arrow
ComponentArrowDeclarator(d) ==
    /\ d.name.kind = "PatIdent"
    /\ d.init.kind = "Arrow"
    /\ IsComponent(arrow_to_function(d.init))

\* only the initialiser is replaced, by a class expression named after the binding
InitialiserRewritten(p) ==
    /\ p[2].name = p[1].name
    /\ p[2].init.kind = "ClassExpr"
    /\ p[2].init.ident = p[1].name.id
    /\ Len(p[2].init.class.body) = 1
    /\ p[2].init.class.body[1].key =
          (IF is_rask_component(arrow_to_function(p[1].init)) THEN "setup" ELSE "renderFn")

\* C11: a declarator binding a simple identifier to a component-shaped arrow
\* has exactly its initialiser replaced by a class expression named after the
\* binding, wherever the declaration stands: as a top-level statement, as a
\* statement of a function body, and as the declaration of a named export.
C11_DeclaratorRewritten ==
    JustVisited =>
        \A p \in TopLevelDeclarators(LastIn, LastOut)
                  \cup NestedDeclarators(LastIn, LastOut)
                  \cup ExportedDeclarators(LastIn, LastOut) :
            ComponentArrowDeclarator(p[1]) => InitialiserRewritten(p)

\* what does hold: the declarators of a top-level statement, and those in the
\* body of a top-level function that is not itself rewritten, are rewritten
DeclaratorRewrittenWhereWalked ==
    JustVisited =>
        \A p \in TopLevelDeclarators(LastIn, LastOut)
                  \cup (IF LastIn.kind = "FnDecl" /\ ~IsComponent(LastIn.function)
                        THEN NestedDeclarators(LastIn, LastOut) ELSE {}) :
            ComponentArrowDeclarator(p[1]) => InitialiserRewritten(p)

\* the declaration of a named export is never touched
ExportedDeclaratorKept ==
    JustVisited =>
        \A p \in ExportedDeclarators(LastIn, LastOut) :
            ComponentArrowDeclarator(p[1]) => p[2] = p[1]

\* the component declarations and component arrow declarators at or below a node
NestedCandidates(n) ==
    {d \in Nodes(n) : \/ d.kind = "FnDecl" /\ IsComponent(d.function)
                      \/ d.kind = "VarDeclarator" /\ ComponentArrowDeclarator(d)}

\* a destructuring pattern bound to a component-shaped arrow
DestructuredComponentDeclarator(d) ==
    /\ d.name.kind # "PatIdent"
    /\ d.init.kind = "Arrow"
    /\ IsComponent(arrow_to_function(d.init))

\* the component-shaped arrows that top-level destructuring declarators bind
DestructuredCandidates(body) ==
    UNION {{body[i].decls[j].init :
               j \in {k \in DOMAIN body[i].decls :
                         DestructuredComponentDeclarator(body[i].decls[k])}} :
              i \in {k \in DOMAIN body : body[k].kind = "VarDecl"}}

\* the module has component-shaped functions, and all of them are arrows that
\* a top-level destructuring declarator binds
OnlyDestructuredCandidates(body) ==
    /\ DestructuredCandidates(body) # {}
    /\ \A n \in NodesOf(body) :
          /\ n.kind = "Function" => ~IsComponent(n)
          /\ (n.kind = "Arrow" /\ IsComponent(arrow_to_function(n))) =>
                n \in DestructuredCandidates(body)

\* C12: a declarator binding a destructuring pattern to a component-shaped
\* arrow is not rewritten (its initialiser stays the arrow, and the declarator
\* is returned as given when the arrow encloses no further component), and it
\* allocates no binding: when such declarators are the only candidates of the
\* module, both binding slots stay empty, no import is injected and every
\* declaration is returned as given.
C12_DestructuredUntouched ==
    /\ JustVisited =>
          \A p \in TopLevelDeclarators(LastIn, LastOut)
                    \cup NestedDeclarators(LastIn, LastOut)
                    \cup ExportedDeclarators(LastIn, LastOut) :
              DestructuredComponentDeclarator(p[1]) =>
                  /\ p[2].name = p[1].name
                  /\ p[2].init.kind = "Arrow"
                  /\ p[2].init.params = p[1].init.params
                  /\ NestedCandidates(p[1].init.body) = {} => p[2] = p[1]
    /\ (pc = "done" /\ OnlyDestructuredCandidates(input)) =>
          /\ import_rask_stateful_component = None
          /\ import_rask_stateless_component = None
          /\ Len(module) = Len(input)
          /\ \A i \in DOMAIN input : input[i].kind # "Import" => module[i] = input[i]

C12_Witness ==
    /\ pc = "done"
    /\ run = 1
    /\ OnlyDestructuredCandidates(input)
    /\ Len(input) > 1
    /\ \E i \in DOMAIN module :
          /\ module[i].kind = "VarDecl"
          /\ DestructuredComponentDeclarator(module[i].decls[1])

\* the candidates of a module item the walker dispatches on, each with the
\* name of the component, the function or arrow as written, and the node that
\* stands at its place in the output item
CandidateSites(in, out) ==
    CASE in.kind = "FnDecl" ->
            {[name |-> in.ident, orig |-> in.function, out |-> out]}
            \cup (IF IsComponent(in.function) \/ in.function.body = None THEN {}
                  ELSE {[name |-> in.function.body.stmts[j].ident,
                         orig |-> in.function.body.stmts[j].function,
                         out |-> out.function.body.stmts[j]] :
                           j \in {k \in DOMAIN in.function.body.stmts :
                                     in.function.body.stmts[k].kind = "FnDecl"}}
                       \cup {[name |-> p[1].name.id, orig |-> p[1].init,
                               out |-> p[2].init] :
                                p \in {q \in NestedDeclarators(in, out) :
                                          /\ q[1].name.kind = "PatIdent"
                                          /\ q[1].init.kind = "Arrow"}})
      [] in.kind = "ExportDecl" /\ in.decl.kind = "FnDecl" ->
            {[name |-> in.decl.ident, orig |-> in.decl.function, out |-> out.decl]}
      [] in.kind = "ExportDefaultDecl" /\ in.decl.kind = "FnExpr" ->
            {[name |-> IF in.decl.ident = None THEN Ident("DefaultComponent")
                       ELSE in.decl.ident,
              orig |-> in.decl.function, out |-> out.decl]}
      [] in.kind = "ExportDefaultExpr" /\ in.expr.kind = "Arrow" ->
            {[name |-> Ident("DefaultComponent"), orig |-> in.expr, out |-> out.expr]}
      [] in.kind = "VarDecl" ->
            {[name |-> p[1].name.id, orig |-> p[1].init, out |-> p[2].init] :
                p \in {q \in TopLevelDeclarators(in, out) :
                          /\ q[1].name.kind = "PatIdent"
                          /\ q[1].init.kind = "Arrow"}}
      [] OTHER -> {}

RewrittenSites ==
    {c \in CandidateSites(LastIn, LastOut) : c.out.kind \in {"ClassDecl", "ClassExpr"}}

\* the body the stored function is to have: the block as written, or one
\* return of the expression of an expression-bodied arrow
ExpectedBody(orig) ==
    IF orig.kind = "Arrow" /\ orig.body.kind # "BlockStmt"
    THEN BlockStmt(<<Return(orig.body)>>)
    ELSE orig.body

\* the class has one member and a superclass; the member's value is a function
\* expression named after the component, with the candidate's parameters and flags
StoredFunctionHeader(c) ==
    LET v == c.out.class.body[1].value IN
    /\ Len(c.out.class.body) = 1
    /\ c.out.class.super_class # None
    /\ v.kind = "FnExpr"
    /\ v.ident = c.name
    /\ v.function.kind = "Function"
    /\ v.function.params = c.orig.params
    /\ v.function.is_async = c.orig.is_async
    /\ v.function.is_generator = c.orig.is_generator

\* C13 (as claimed): the function stored in the setup/renderFn property of a
\* rewritten class is the matched candidate unchanged: named after the
\* component, same parameters, flags and body; one return of the expression
\* for an expression-bodied arrow; the class has one member and a superclass.
C13_FunctionPreserved ==
    JustVisited =>
        \A c \in RewrittenSites :
            /\ StoredFunctionHeader(c)
            /\ c.out.class.body[1].value.function.body = ExpectedBody(c.orig)

\* C13 (amended): as claimed for the name, the parameters, the flags, the
\* single member and the superclass; the body is the candidate's body (one
\* return of the expression for an expression-bodied arrow) statement by
\* statement, except for the statements that enclose a component declaration
\* or declarator, which the walker rewrites in place when it descends into the
\* new class; the body is the candidate's whenever it encloses none.
C13_FunctionPreservedUpToNested ==
    JustVisited =>
        \A c \in RewrittenSites :
            LET body == c.out.class.body[1].value.function.body
                expected == ExpectedBody(c.orig)
            IN /\ StoredFunctionHeader(c)
               /\ body.kind = "BlockStmt"
               /\ Len(body.stmts) = Len(expected.stmts)
               /\ \A k \in DOMAIN expected.stmts :
                     NestedCandidates(expected.stmts[k]) = {} =>
                         body.stmts[k] = expected.stmts[k]
               /\ NestedCandidates(expected) = {} => body = expected

C13_Witness ==
    /\ JustVisited
    /\ \E c \in RewrittenSites :
          /\ c.orig.kind = "Arrow"
          /\ c.orig.body.kind = "BlockStmt"
          /\ StoredFunctionHeader(c)
          /\ c.out.class.body[1].value.function.body # c.orig.body
          /\ \E k \in DOMAIN c.orig.body.stmts :
                c.out.class.body[1].value.function.body.stmts[k] = c.orig.body.stmts[k]

ExprKinds ==
    {"Ident", "Call", "Paren", "Cond", "Bin", "Array", "Member", "Unary", "Await",
     "Arrow", "FnExpr", "ClassExpr"}

\* the expressions directly under an expression through which the search for
\* a marker call may descend
VNodeEdges(e) ==
    CASE e.kind = "Call" -> Range(e.args)
      [] e.kind = "Paren" -> {e.expr}
      [] e.kind = "Cond" -> {e.cons, e.alt}
      [] e.kind = "Bin" -> {e.left, e.right}
      [] e.kind = "Array" -> Range(e.elems) \ {None}
      [] e.kind = "Arrow" ->
            IF e.body.kind # "BlockStmt" THEN {e.body}
            ELSE {e.body.stmts[i].arg :
                     i \in {k \in DOMAIN e.body.stmts :
                               /\ e.body.stmts[k].kind = "Return"
                               /\ e.body.stmts[k].arg # None}}
      [] e.kind = "Member" -> {e.obj}
      [] e.kind = "Unary" -> {e.arg}
      [] OTHER -> {}

RECURSIVE MarkerReachable(_)
MarkerReachable(e) ==
    DirectMarkerCall(e) \/ \E c \in VNodeEdges(e) : MarkerReachable(c)

\* the expressions of the module item just visited
VisitedExprs == {n \in Nodes(LastIn) : n.kind \in ExprKinds}

\* C14: has_vnode_call(expr) is true iff a call whose callee is one of the
\* four marker identifiers is reachable from expr by descending only through
\* call arguments, parentheses, the two branches of a ternary, both operands
\* of a binary expression, array elements that are not elided, the expression
\* body of an arrow, the arguments of the top-level returns of a block-bodied
\* arrow, the object of a member access and the operand of a unary
\* expression; it is false for every other shape.
C14_DetectorReachability ==
    JustVisited =>
        \A e \in VisitedExprs : has_vnode_call(e) <=> MarkerReachable(e)

C14_Witness ==
    /\ JustVisited
    /\ LastOut.kind = "ClassDecl"
    /\ \E e \in VisitedExprs :
          /\ has_vnode_call(e)
          /\ e.kind = "Arrow"
          /\ e.body.kind = "BlockStmt"
          /\ Len(e.body.stmts) > 1
          /\ e.body.stmts[1].kind # "Return"

VisitedBlocks == {n \in Nodes(LastIn) : n.kind = "BlockStmt"}

\* C15: block_has_vnode_return(block) is true iff a return whose argument
\* satisfies has_vnode_call is reachable from the statements of the block
\* through if branches, nested blocks, switch case bodies, try block, handler
\* and finalizer, loop bodies and labeled statements only; a return without
\* argument and any other statement contribute no match, and a statement that
\* does not match never ends the search of the statements after it.
C15_ReturnReachability ==
    JustVisited =>
        \A b \in VisitedBlocks :
            block_has_vnode_return(b) <=>
                \E r \in ReachableReturns(b) : r.arg # None /\ has_vnode_call(r.arg)

C15_Witness ==
    /\ JustVisited
    /\ LastOut.kind = "ClassDecl"
    /\ \E b \in VisitedBlocks :
          /\ block_has_vnode_return(b)
          /\ Len(b.stmts) > 1
          /\ ~stmt_has_vnode_return(b.stmts[1])
          /\ \A i \in DOMAIN b.stmts : b.stmts[i].kind # "Return"

\* the child nodes of a syntax tree node, in order
ChildList(n) ==
    CASE n.kind = "Call" -> <<n.callee>> \o n.args
      [] n.kind \in {"Paren", "ExprStmt", "ExportDefaultExpr"} -> <<n.expr>>
      [] n.kind \in {"Cond", "If"} -> <<n.test, n.cons, n.alt>>
      [] n.kind = "Bin" -> <<n.left, n.right>>
      [] n.kind = "Array" -> n.elems
      [] n.kind = "Member" -> <<n.obj>>
      [] n.kind \in {"Unary", "Await", "Return"} -> <<n.arg>>
      [] n.kind \in {"Arrow", "Function", "CatchClause", "For", "ForIn", "ForOf",
                     "While", "DoWhile", "Labeled"} -> <<n.body>>
      [] n.kind = "BlockStmt" -> n.stmts
      [] n.kind \in {"FnExpr", "FnDecl"} -> <<n.function>>
      [] n.kind = "ClassProp" -> <<n.value>>
      [] n.kind = "Class" -> n.body \o <<n.super_class>>
      [] n.kind \in {"ClassExpr", "ClassDecl"} -> <<n.class>>
      [] n.kind = "Switch" -> n.cases
      [] n.kind = "SwitchCase" -> n.cons
      [] n.kind = "Try" -> <<n.block, n.handler, n.finalizer>>
      [] n.kind = "VarDecl" -> n.decls
      [] n.kind = "VarDeclarator" -> <<n.init>>
      [] n.kind \in {"ExportDecl", "ExportDefaultDecl"} -> <<n.decl>>
      [] OTHER -> <<>>

\* a class of the shape the rewrite produces
IsProducedClass(n) ==
    /\ n.kind \in {"ClassDecl", "ClassExpr"}
    /\ Len(n.class.body) = 1
    /\ n.class.body[1].key \in {"setup", "renderFn"}

\* a declaration the rewrite matches: a component function declaration, a
\* simple identifier bound to a component arrow, a default-exported component
\* function or arrow
IsCandidate(n) ==
    \/ n.kind = "FnDecl" /\ IsComponent(n.function)
    \/ n.kind = "VarDeclarator" /\ ComponentArrowDeclarator(n)
    \/ n.kind = "ExportDefaultDecl" /\ n.decl.kind = "FnExpr" /\ IsComponent(n.decl.function)
    \/ /\ n.kind = "ExportDefaultExpr"
       /\ n.expr.kind = "Arrow"
       /\ IsComponent(arrow_to_function(n.expr))

\* the number of produced classes ("class") or of candidates ("candidate") at
\* or below a node, each occurrence counted
RECURSIVE Count(_, _)
RECURSIVE CountAll(_, _)
Count(what, n) ==
    (IF (what = "class" /\ IsProducedClass(n)) \/ (what = "candidate" /\ IsCandidate(n))
     THEN 1 ELSE 0)
    + CountAll(what, ChildList(n))

CountAll(what, seq) ==
    IF seq = <<>> THEN 0 ELSE Count(what, Head(seq)) + CountAll(what, Tail(seq))

\* C16: within one run every candidate is rewritten at most once and a class
\* the rewrite produced is never classified or rewritten again, although
\* visit_mut_function walks the statements of a body twice: the property value
\* of every produced class is a function expression around the candidate's
\* function, and the visit of an item produces exactly as many classes as it
\* consumes candidates.
C16_RewrittenOnce ==
    JustVisited =>
        /\ \A n \in Nodes(LastOut) :
              IsProducedClass(n) =>
                  LET v == n.class.body[1].value IN
                  /\ v.kind = "FnExpr"
                  /\ v.function.kind = "Function"
                  /\ IF n.class.body[1].key = "setup"
                     THEN is_rask_component(v.function)
                     ELSE is_stateless_component(v.function)
        /\ Count("class", LastOut) - Count("class", LastIn)
              = Count("candidate", LastIn) - Count("candidate", LastOut)
        /\ Count("class", LastOut) >= Count("class", LastIn)

C16_Witness ==
    /\ JustVisited
    /\ run = 1
    /\ LastIn.kind = "FnDecl"
    /\ LastOut.kind = "FnDecl"
    /\ Count("candidate", LastIn) >= 2
    /\ Count("class", LastOut) = Count("candidate", LastIn)
    /\ \E j \in DOMAIN LastOut.function.body.stmts :
          /\ LastIn.function.body.stmts[j].kind = "FnDecl"
          /\ LastOut.function.body.stmts[j].kind = "ClassDecl"

====
